---- MODULE Spec2Model ----
(***************************************************************************)
(* A model of the vga crate's colour attribute type (src/colors.rs) and of *)
(* its planar 640x480x16 graphics writer                                   *)
(* (src/writers/graphics_640x480x16.rs).                                   *)
(*                                                                         *)
(* These specifications share the module's variables:                      *)
(*   SpecColor  TextModeColor: new, set_foreground, set_background         *)
(*   Spec       the writer, one action per public operation (the device    *)
(*              lock makes each operation atomic, see SpecConc)            *)
(*   SpecAddr   the addressing arithmetic of set_pixel over the whole      *)
(*              640x480 screen                                             *)
(*   SpecConc   the writer statement by statement, two callers, with the   *)
(*              VGA spinlock                                               *)
(*   SpecConcFair  SpecConc with a fair lock and fair callers              *)
(*   SpecPalette   DEFAULT_PALETTE loaded byte by byte                     *)
(*   SpecOob       set_pixel outside the screen                            *)
(*   SpecCommute   two set_pixel calls in both orders                      *)
(*                                                                         *)
(* The frame buffer holds 4 planes.  The model keeps the bytes of a fixed  *)
(* set of offsets (TrackedOffsets); no operation makes the byte at one     *)
(* offset depend on the byte at another, so the bytes left out evolve the  *)
(* same way as the ones kept.                                              *)
(***************************************************************************)
EXTENDS Integers, Sequences, FiniteSets, TLC

VARIABLES
    \* TextModeColor
    tmc,              \* TextModeColor.0, the packed byte
    tmcOp,            \* the last TextModeColor operation
    tmcFg,            \* its foreground argument (code), or -1
    tmcBg,            \* its background argument (code), or -1
    tmcPrev,          \* TextModeColor.0 before the last operation
    \* the adapter behind the VGA lock
    vga,              \* the register state the writer programs
    mem,              \* frame-buffer memory: plane -> offset -> byte
    \* sequential history (Spec)
    lastOp, prevOp,   \* the last two operations
    lastX, lastY, lastColor,
    memBefore,        \* mem when the last operation started
    nOps,
    \* addressing (SpecAddr)
    addrX, addrY, addrOffset, addrMask, addrDone,
    \* concurrent callers (SpecConc)
    lock,             \* the VGA spinlock: "unlocked" or the caller holding it
    pc,               \* caller -> the statement it is at
    loc,              \* caller -> its operation, arguments and locals
    calls,            \* caller -> operations started
    opLog,            \* register and memory accesses since the last lock()
    serial,           \* [vga, mem] after the calls so far, run one after the
                      \* other in the order of their lock()
    \* palette load (SpecPalette)
    dac,              \* the bytes load_palette has written to the DAC
    \* two set_pixel calls in both orders (SpecCommute)
    cm                \* the pixels, the colours and the result of each order

vars == <<tmc, tmcOp, tmcFg, tmcBg, tmcPrev, vga, mem, lastOp, prevOp,
          lastX, lastY, lastColor, memBefore, nOps,
          addrX, addrY, addrOffset, addrMask, addrDone,
          lock, pc, loc, calls, opLog, serial, dac, cm>>

ghostVars == <<serial>>
concVars  == <<lock, pc, loc, calls, opLog, ghostVars>>
pureVars  == <<dac, cm>>
colorVars == <<tmc, tmcOp, tmcFg, tmcBg, tmcPrev>>
hwVars    == <<vga, mem>>
seqVars   == <<lastOp, prevOp, lastX, lastY, lastColor, memBefore, nOps>>
addrVars  == <<addrX, addrY, addrOffset, addrMask, addrDone>>

(***************************************************************************)
(* u8 arithmetic                                                           *)
(***************************************************************************)
Byte == 0..255

\* 2^n for the shift counts and bit indices of a u8
Pow2(n) == <<1, 2, 4, 8, 16, 32, 64, 128, 256>>[n + 1]

RECURSIVE BitAndN(_, _, _)
BitAndN(a, b, n) ==
    IF n = 0 THEN 0
    ELSE (a % 2) * (b % 2) + 2 * BitAndN(a \div 2, b \div 2, n - 1)

RECURSIVE BitOrN(_, _, _)
BitOrN(a, b, n) ==
    IF n = 0 THEN 0
    ELSE (IF a % 2 = 1 \/ b % 2 = 1 THEN 1 ELSE 0)
         + 2 * BitOrN(a \div 2, b \div 2, n - 1)

\* a & b, a | b, !a, a << n, a >> n on u8
BitAnd(a, b) == BitAndN(a, b, 8)
BitOr(a, b)  == BitOrN(a, b, 8)
BitNot(a)    == 255 - a
Shl(a, n)    == (a * Pow2(n)) % 256
Shr(a, n)    == a \div Pow2(n)

\* bit i (0 = least significant) of byte b
Bit(b, i) == (b \div Pow2(i)) % 2

(***************************************************************************)
(* Color16Bit: 16 variants, `as u8` gives the code 0x0..0xF                *)
(***************************************************************************)
Color16Bit == 0..15
Black == 0
Red   == 4
DarkGrey == 8
Yellow == 14
White == 15

(***************************************************************************)
(* TextModeColor                                                           *)
(***************************************************************************)
\* TextModeColor::new: (background as u8) << 4 | (foreground as u8)
NewShiftMutant(foreground, background) == BitOr(Shl(foreground, 4), background)
new(foreground, background) == BitOr(Shl(background, 4), foreground)

\* set_background: self.0 = (background as u8) << 4 | (self.0 & 0x0F)
SetBackgroundMutant(self, background) == Shl(background, 4)
set_background(self, background) ==
    BitOr(Shl(background, 4), BitAnd(self, 15))

\* set_foreground: self.0 = foreground as u8
set_foreground(self, foreground) == foreground

(***************************************************************************)
(* Graphics640x480x16: constants                                           *)
(***************************************************************************)
WIDTH  == 640
HEIGHT == 480
ALL_PLANES_SCREEN_SIZE == (WIDTH * HEIGHT) \div 4

Planes == 0..3

\* registers::PlaneMask (bit p set = plane p selected)
NONE       == 0
ALL_PLANES == 15
\* TryFrom<u8> for PlaneMask: plane index -> the mask of that one plane
PlaneMaskFromU8(plane) == Pow2(plane)
\* TryFrom<u8> for ReadPlane: plane index -> that plane
ReadPlaneFromU8(plane) == plane

(***************************************************************************)
(* The part of the frame buffer the model keeps, and the inputs            *)
(***************************************************************************)
\* pixels drawn by set_pixel: two that share byte 0, and the last pixel
Pixels == {<<0, 0>>, <<7, 0>>, <<639, 479>>}

\* let offset = x / 8 + (WIDTH / 8) * y
OffsetRowMutant(x, y) == x \div 8 + WIDTH * y
Offset(x, y) == x \div 8 + (WIDTH \div 8) * y

TrackedOffsets ==
    {Offset(p[1], p[2]) : p \in Pixels}
        \cup {1, ALL_PLANES_SCREEN_SIZE - 1, ALL_PLANES_SCREEN_SIZE}

\* frame-buffer contents before the first operation
InitPattern(seed, p, o) == (seed * (1 + 85 * p + o)) % 256
InitSeeds == {1, 255}
MemOf(seed) ==
    [p \in Planes |-> [o \in TrackedOffsets |-> InitPattern(seed, p, o)]]
InitMem == {MemOf(seed) : seed \in InitSeeds}

\* register state before the first set_mode: whatever the previous mode left
InitRegs == {<<2, 1, 5, 10>>, <<0, 3, 15, 15>>}
VgaOf(r) ==
    [plane_mask |-> r[1], read_plane |-> r[2], enable_set_reset |-> r[3],
     set_reset |-> r[4], video_mode |-> "Other", palette |-> "Other"]
\* ... or the adapter is already in the mode (VGA is one global device), with
\* the plane registers as an earlier set_pixel left them
AlreadyInMode ==
    [VgaOf(<<8, 3, 0, 0>>) EXCEPT !.video_mode = "Mode640x480x16",
                                  !.palette = "DEFAULT_PALETTE"]
InitVga == {VgaOf(r) : r \in InitRegs} \cup {AlreadyInMode}

(***************************************************************************)
(* Register layer and memory-mapped access                                 *)
(***************************************************************************)
set_plane_mask(v, plane_mask) == [v EXCEPT !.plane_mask = plane_mask]
write_enable_set_reset(v, m)  == [v EXCEPT !.enable_set_reset = m]
write_read_plane(v, plane)    == [v EXCEPT !.read_plane = plane]
load_palette(v, palette)      == [v EXCEPT !.palette = palette]

\* Vga::set_video_mode(Mode640x480x16): reprograms every register for the
\* mode; messUp: this BIOS corrupts the palette while switching
set_video_mode(v, messUp) ==
    [plane_mask |-> ALL_PLANES, read_plane |-> 0, enable_set_reset |-> NONE,
     set_reset |-> NONE, video_mode |-> "Mode640x480x16",
     palette |-> IF messUp THEN "corrupted" ELSE v.palette]

\* the byte plane p receives when the CPU writes `value`
PlaneData(v, p, value) ==
    IF Bit(v.enable_set_reset, p) = 1
    THEN (IF Bit(v.set_reset, p) = 1 THEN 255 ELSE 0)
    ELSE value

\* frame_buffer.add(offset).write_volatile(value)
write_volatile(v, m, offset, value) ==
    [p \in Planes |->
        IF Bit(v.plane_mask, p) = 1 /\ offset \in TrackedOffsets
        THEN [m[p] EXCEPT ![offset] = PlaneData(v, p, value)]
        ELSE m[p]]

\* frame_buffer.add(offset).read_volatile()
read_volatile(v, m, offset) == m[v.read_plane][offset]

\* vga::FrameBuffer: where the current mode maps video memory
FrameBuffer_GraphicsMode == 655360
FrameBuffer_CgaAndEgaTextModes == 753664
\* Vga::get_frame_buffer
GetFrameBuffer(v) ==
    IF v.video_mode = "Mode640x480x16" THEN FrameBuffer_GraphicsMode
    ELSE FrameBuffer_CgaAndEgaTextModes

\* get_frame_buffer: u32::from(vga.get_frame_buffer()) as *mut u8
FrameBufferStaleMutant(v) == FrameBuffer_CgaAndEgaTextModes
FrameBufferPointer(v) == GetFrameBuffer(v)

(***************************************************************************)
(* Graphics640x480x16: the operations, on s = [vga, mem]                   *)
(***************************************************************************)
\* the tracked offset the clear loop reaches next after `offset`
NextOffset(offset) ==
    LET later == {o \in TrackedOffsets : o > offset}
    IN  IF later = {} THEN ALL_PLANES_SCREEN_SIZE
        ELSE CHOOSE o \in later : \A q \in later : o <= q

\* for offset in 0..ALL_PLANES_SCREEN_SIZE { write_volatile(Black) }
\* (the iterations over bytes the model does not keep change nothing)
RECURSIVE ClearLoopShortMutant(_, _, _)
ClearLoopShortMutant(v, m, offset) ==
    IF offset >= (WIDTH * HEIGHT) \div 8 THEN m
    ELSE ClearLoopShortMutant(v, write_volatile(v, m, offset, Black),
                              NextOffset(offset))

RECURSIVE ClearLoop(_, _, _)
ClearLoop(v, m, offset) ==
    IF offset >= ALL_PLANES_SCREEN_SIZE THEN m
    ELSE ClearLoop(v, write_volatile(v, m, offset, Black), NextOffset(offset))

ClearScreenNoEnableMutant(s) ==
    LET v1 == set_plane_mask(s.vga, ALL_PLANES)
    IN  [vga |-> v1, mem |-> ClearLoop(v1, s.mem, 0)]

clear_screen(s) ==
    LET v1 == set_plane_mask(s.vga, ALL_PLANES)
        v2 == write_enable_set_reset(v1, NONE)
    IN  [vga |-> v2, mem |-> ClearLoop(v2, s.mem, 0)]

\* let mask = 0x80 >> (x & 7)
PixelMaskWideMutant(x) == Shr(255, x % 8)
PixelMask(x) == Shr(128, x % 8)

\* if plane_mask & color != 0 { current | mask } else { current & !mask }
NewValueNoClearMutant(current_value, mask, plane_mask, color) ==
    IF BitAnd(plane_mask, color) # 0
    THEN BitOr(current_value, mask)
    ELSE BitAnd(current_value, mask)

\* the byte rebuilt from the mask alone
NewValueOverwriteMutant(current_value, mask, plane_mask, color) ==
    IF BitAnd(plane_mask, color) # 0 THEN mask ELSE 0

NewValue(current_value, mask, plane_mask, color) ==
    IF BitAnd(plane_mask, color) # 0
    THEN BitOr(current_value, mask)
    ELSE BitAnd(current_value, BitNot(mask))

\* one iteration of `for plane in 0u8..4u8`
SetPixelPlane(s, offset, mask, color, plane, plane_mask) ==
    LET v1 == write_read_plane(s.vga, ReadPlaneFromU8(plane))
        v2 == set_plane_mask(v1, PlaneMaskFromU8(plane))
        current_value == read_volatile(v2, s.mem, offset)
        new_value == NewValue(current_value, mask, plane_mask, color)
    IN  [vga |-> v2, mem |-> write_volatile(v2, s.mem, offset, new_value)]

RECURSIVE SetPixelLoop(_, _, _, _, _, _)
SetPixelLoop(s, offset, mask, color, plane, plane_mask) ==
    IF plane >= 4 THEN s
    ELSE SetPixelLoop(SetPixelPlane(s, offset, mask, color, plane, plane_mask),
                      offset, mask, color, plane + 1, Shl(plane_mask, 1))

\* set_pixel that returns early outside the screen
SetPixelCheckedMutant(s, x, y, color) ==
    IF x < WIDTH /\ y < HEIGHT
    THEN SetPixelLoop(s, Offset(x, y), PixelMask(x), color, 0, 1)
    ELSE s

set_pixel(s, x, y, color) ==
    SetPixelLoop(s, Offset(x, y), PixelMask(x), color, 0, 1)

\* vga.color_palette_registers.load_palette(&DEFAULT_PALETTE)
SetModePaletteSkipMutant(v) == v
SetModePalette(v) == load_palette(v, "DEFAULT_PALETTE")

\* set_mode without the mode switch
SetModeNoSwitchMutant(s, messUp) ==
    [vga |-> SetModePalette(s.vga), mem |-> s.mem]

set_mode(s, messUp) ==
    LET v1 == set_video_mode(s.vga, messUp)
    IN  [vga |-> SetModePalette(v1), mem |-> s.mem]

(***************************************************************************)
(* Spec: the writer, one action per public operation                       *)
(***************************************************************************)
MaxOps == 2

ColorIdle == tmc = 0 /\ tmcOp = "none" /\ tmcFg = -1 /\ tmcBg = -1 /\ tmcPrev = 0
AddrIdle  == addrX = 0 /\ addrY = 0 /\ addrOffset = 0 /\ addrMask = 0
             /\ addrDone = FALSE
Threads == {"t1", "t2"}
NoLocals ==
    [op |-> "none", x |-> 0, y |-> 0, color |-> 0, offset |-> 0, mask |-> 0,
     plane_mask |-> 0, plane |-> 0, current_value |-> 0, frame_buffer |-> 0]
ConcIdle  == /\ lock = "unlocked"
             /\ pc = [t \in Threads |-> "idle"]
             /\ loc = [t \in Threads |-> NoLocals]
             /\ calls = [t \in Threads |-> 0]
             /\ opLog = <<>>
             /\ serial = [vga |-> vga, mem |-> mem]
NoCommute ==
    [p1 |-> <<0, 0>>, p2 |-> <<0, 0>>, a |-> 0, b |-> 0, step |-> -1,
     ab |-> <<>>, ba |-> <<>>]
PureIdle  == dac = <<>> /\ cm = NoCommute
HwIdle    == vga = VgaOf(<<15, 0, 0, 0>>) /\ mem = MemOf(1)
SeqIdle   == lastOp = "none" /\ prevOp = "none" /\ lastX = 0 /\ lastY = 0
             /\ lastColor = 0 /\ memBefore = mem /\ nOps = 0

Init ==
    /\ vga \in InitVga
    /\ mem \in InitMem
    /\ SeqIdle /\ ColorIdle /\ AddrIdle /\ ConcIdle /\ PureIdle

Did(op, x, y, color, s) ==
    /\ vga' = s.vga
    /\ mem' = s.mem
    /\ lastOp' = op /\ prevOp' = lastOp
    /\ lastX' = x /\ lastY' = y /\ lastColor' = color
    /\ memBefore' = mem
    /\ nOps' = nOps + 1
    /\ UNCHANGED <<colorVars, addrVars, concVars, pureVars>>

ClearScreen ==
    /\ nOps < MaxOps
    /\ Did("clear_screen", 0, 0, 0, clear_screen([vga |-> vga, mem |-> mem]))

SetPixel ==
    /\ nOps < MaxOps
    /\ \E p \in Pixels, color \in Color16Bit :
          Did("set_pixel", p[1], p[2], color,
              set_pixel([vga |-> vga, mem |-> mem], p[1], p[2], color))

SetMode ==
    /\ nOps < MaxOps
    /\ \E messUp \in BOOLEAN :
          Did("set_mode", 0, 0, 0, set_mode([vga |-> vga, mem |-> mem], messUp))

Next == ClearScreen \/ SetPixel \/ SetMode

Spec == Init /\ [][Next]_vars

\* the 4-bit colour a pixel reads back as: bit p comes from plane p
PixelBit(m, p, x, y) == Bit(m[p][Offset(x, y)], 7 - (x % 8))
ReadPixel(m, x, y) ==
    PixelBit(m, 0, x, y) + 2 * PixelBit(m, 1, x, y)
        + 4 * PixelBit(m, 2, x, y) + 8 * PixelBit(m, 3, x, y)

InGraphicsMode == vga.video_mode = "Mode640x480x16"
InRange(x, y) == x \in 0..(WIDTH - 1) /\ y \in 0..(HEIGHT - 1)

\* C4: with the adapter in the 640x480x16 mode, after set_pixel(x, y, C) on an
\* in-range pixel, bit 7 - (x mod 8) of the byte at x/8 + 80*y in plane p is
\* bit p of C, for each of the 4 planes: the pixel reads back as C.
C4_PixelRoundTrip ==
    (lastOp = "set_pixel" /\ InGraphicsMode /\ InRange(lastX, lastY)) =>
        /\ \A p \in Planes :
              Bit(mem[p][lastX \div 8 + 80 * lastY], 7 - (lastX % 8))
                  = Bit(lastColor, p)
        /\ ReadPixel(mem, lastX, lastY) = lastColor

C4_Witness ==
    /\ lastOp = "set_pixel" /\ InGraphicsMode
    /\ lastX = 639 /\ lastY = 479 /\ lastColor = 5
    /\ ReadPixel(memBefore, 639, 479) = 10
    /\ ReadPixel(mem, 639, 479) = 5

\* C5: with the adapter in the 640x480x16 mode, set_pixel on an in-range pixel
\* changes no bit of any plane other than the pixel's own: the other 7 bits of
\* the byte at the pixel's offset and every byte at another offset are as
\* before.
C5_OnlyTargetPixel ==
    (lastOp = "set_pixel" /\ InGraphicsMode /\ InRange(lastX, lastY)) =>
        \A p \in Planes, o \in TrackedOffsets, i \in 0..7 :
            (o # Offset(lastX, lastY) \/ i # 7 - (lastX % 8)) =>
                Bit(mem[p][o], i) = Bit(memBefore[p][o], i)

\* set_pixel(0, 0, Black) after set_pixel(0, 0, White): bit 7 of offset 0 is
\* cleared in all planes and the other bits of the byte, some of them set, stay
C5_Witness ==
    /\ lastOp = "set_pixel" /\ prevOp = "set_pixel" /\ InGraphicsMode
    /\ lastX = 0 /\ lastY = 0 /\ lastColor = Black
    /\ ReadPixel(memBefore, 0, 0) = White
    /\ \A p \in Planes :
          /\ Bit(memBefore[p][0], 7) = 1 /\ Bit(mem[p][0], 7) = 0
          /\ mem[p][0] = memBefore[p][0] - 128
    /\ \E p \in Planes : mem[p][0] # 0

AllZero(m) ==
    \A p \in Planes, o \in TrackedOffsets :
        o < ALL_PLANES_SCREEN_SIZE => m[p][o] = 0

\* C6: after clear_screen, whatever the frame buffer held and whatever the
\* plane-mask, read-plane and write-enable registers were, every byte at an
\* offset in 0..(WIDTH*HEIGHT)/4 is zero in all four planes and every pixel
\* reads back as Black.
C6_ClearScreenAllBlack ==
    lastOp = "clear_screen" =>
        /\ \A p \in Planes, o \in TrackedOffsets :
              (0 <= o /\ o < 76800) => mem[p][o] = 0
        /\ \A px \in Pixels : ReadPixel(mem, px[1], px[2]) = Black

\* clear_screen right after a set_pixel (which leaves only plane 3 selected),
\* over a frame buffer that was not black
C6_Witness ==
    /\ lastOp = "clear_screen" /\ prevOp = "set_pixel"
    /\ \E p \in Planes : memBefore[p][ALL_PLANES_SCREEN_SIZE - 1] # 0
    /\ ReadPixel(memBefore, 0, 0) # Black

\* C10: a clear_screen that follows a clear_screen leaves the frame buffer as
\* the first one left it, all zero in the four planes.
C10_ClearScreenIdempotent ==
    (lastOp = "clear_screen" /\ prevOp = "clear_screen") =>
        /\ mem = memBefore
        /\ AllZero(mem) /\ AllZero(memBefore)

C10_Witness ==
    /\ lastOp = "clear_screen" /\ prevOp = "clear_screen"
    /\ nOps = 2
    /\ mem = memBefore

\* C12: set_pixel and clear_screen re-assert every plane register they depend
\* on (write-enable mask, read plane, plane mask), so each gives its specified
\* result from any configuration of those registers: set_pixel leaves the
\* pixel reading back as its colour and every other bit as it was, clear_screen
\* leaves every byte zero.
C12_ResultFromAnyRegisters ==
    /\ lastOp = "set_pixel" =>
          /\ ReadPixel(mem, lastX, lastY) = lastColor
          /\ \A p \in Planes, o \in TrackedOffsets, i \in 0..7 :
                (o # Offset(lastX, lastY) \/ i # 7 - (lastX % 8)) =>
                    Bit(mem[p][o], i) = Bit(memBefore[p][o], i)
    /\ lastOp = "clear_screen" => AllZero(mem)

\* what one operation of the writer does to the mode and the palette
ModeStep ==
    /\ lastOp' \in {"clear_screen", "set_pixel"} =>
          /\ vga'.video_mode = vga.video_mode
          /\ vga'.palette = vga.palette
    /\ (~InGraphicsMode /\ InGraphicsMode') => lastOp' = "set_mode"
    /\ lastOp' = "set_mode" =>
          /\ InGraphicsMode'
          /\ vga'.palette = "DEFAULT_PALETTE"
    /\ InGraphicsMode => InGraphicsMode'

\* C18: clear_screen and set_pixel leave the video mode and the palette as
\* they are; a step into Mode640x480x16 is a set_mode; set_mode ends in
\* Mode640x480x16 with DEFAULT_PALETTE; no operation of the writer leaves
\* Mode640x480x16.
C18_ModeMachine == [][ModeStep]_vars

\* a set_pixel after a set_mode finds the mode and the palette set_mode left
C18_Witness ==
    /\ lastOp = "set_pixel" /\ prevOp = "set_mode"
    /\ InGraphicsMode /\ vga.palette = "DEFAULT_PALETTE"
    /\ nOps = 2

(***************************************************************************)
(* SpecColor: TextModeColor                                                *)
(***************************************************************************)
InitColor ==
    /\ \E foreground \in Color16Bit, background \in Color16Bit :
          /\ tmc = new(foreground, background)
          /\ tmcFg = foreground
          /\ tmcBg = background
    /\ tmcOp = "new"
    /\ tmcPrev = 0
    /\ HwIdle /\ SeqIdle /\ AddrIdle /\ ConcIdle /\ PureIdle

TmcSetForeground ==
    \E foreground \in Color16Bit :
        /\ tmc' = set_foreground(tmc, foreground)
        /\ tmcOp' = "set_foreground"
        /\ tmcFg' = foreground /\ tmcBg' = -1
        /\ tmcPrev' = tmc
        /\ UNCHANGED <<hwVars, seqVars, addrVars, concVars, pureVars>>

TmcSetBackground ==
    \E background \in Color16Bit :
        /\ tmc' = set_background(tmc, background)
        /\ tmcOp' = "set_background"
        /\ tmcBg' = background /\ tmcFg' = -1
        /\ tmcPrev' = tmc
        /\ UNCHANGED <<hwVars, seqVars, addrVars, concVars, pureVars>>

NextColor == TmcSetForeground \/ TmcSetBackground

SpecColor == InitColor /\ [][NextColor]_vars

LowNibble(b)  == b % 16
HighNibble(b) == b \div 16

\* C1: after set_foreground(c) the low nibble of the packed byte is c's code
\* and the high nibble (the background) is what it was before the call.
C1_SetForegroundKeepsBackground ==
    tmcOp = "set_foreground" =>
        /\ LowNibble(tmc) = tmcFg
        /\ HighNibble(tmc) = HighNibble(tmcPrev)

\* C2: after set_background(c) the high nibble of the packed byte is c's code
\* and the low nibble (the foreground) is what it was before the call.
C2_SetBackgroundKeepsForeground ==
    tmcOp = "set_background" =>
        /\ HighNibble(tmc) = tmcBg
        /\ LowNibble(tmc) = LowNibble(tmcPrev)

C2_Witness ==
    /\ tmcOp = "set_background"
    /\ tmcBg = DarkGrey
    /\ HighNibble(tmcPrev) = Red
    /\ LowNibble(tmcPrev) = Yellow

\* C3: TextModeColor::new(fg, bg) is the byte (bg << 4) | fg: low nibble fg's
\* code, high nibble bg's code.
C3_NewPacksNibbles ==
    tmcOp = "new" =>
        /\ tmc = tmcBg * 16 + tmcFg
        /\ LowNibble(tmc) = tmcFg
        /\ HighNibble(tmc) = tmcBg

C3_Witness == tmcOp = "new" /\ tmcFg = Yellow /\ tmcBg = DarkGrey /\ tmc = 142

(***************************************************************************)
(* SpecAddr: the addressing of set_pixel, for every pixel of the screen    *)
(***************************************************************************)
InitAddr ==
    /\ addrX \in 0..(WIDTH - 1)
    /\ addrY \in 0..(HEIGHT - 1)
    /\ addrOffset = 0 /\ addrMask = 0 /\ addrDone = FALSE
    /\ HwIdle /\ SeqIdle /\ ColorIdle /\ ConcIdle /\ PureIdle

Address ==
    /\ ~addrDone
    /\ addrOffset' = Offset(addrX, addrY)
    /\ addrMask' = PixelMask(addrX)
    /\ addrDone' = TRUE
    /\ UNCHANGED <<addrX, addrY, colorVars, hwVars, seqVars, concVars, pureVars>>

NextAddr == Address

SpecAddr == InitAddr /\ [][NextAddr]_vars

\* C9: for x in 0..640 and y in 0..480 the offset is x/8 + 80*y, inside
\* 0..38400, and the mask is the single bit 7 - (x mod 8); (0,0) gives offset 0
\* and bit 7, (639,479) gives offset 38399 and bit 0.
C9_Addressing ==
    addrDone =>
        /\ addrOffset = addrX \div 8 + 80 * addrY
        /\ 0 <= addrOffset /\ addrOffset < 38400
        /\ \E bit \in 0..7 :
              /\ bit = 7 - (addrX % 8)
              /\ addrMask = Pow2(bit)
        /\ (addrX = 0 /\ addrY = 0) => (addrOffset = 0 /\ addrMask = 128)
        /\ (addrX = 639 /\ addrY = 479) => (addrOffset = 38399 /\ addrMask = 1)

C9_Witness ==
    addrDone /\ addrX = 639 /\ addrY = 479 /\ addrOffset = 38399 /\ addrMask = 1

(***************************************************************************)
(* SpecConc: the writer statement by statement, callers sharing VGA        *)
(***************************************************************************)
MaxCalls == 2

ConcPixels == {<<0, 0>>, <<7, 0>>}
ConcColors == {5, 10}

\* VGA.lock() returns once the spinlock is free
CanLockAlwaysMutant(l) == TRUE
CanLock(l) == l = "unlocked"

Goto(t, label) == pc' = [pc EXCEPT ![t] = label]
Logged(t, event, arg) == opLog' = Append(opLog, <<t, event, arg>>)
idleVars == <<colorVars, seqVars, addrVars, pureVars>>

CallClearScreen(t) ==
    /\ pc[t] = "idle" /\ calls[t] < MaxCalls
    /\ calls' = [calls EXCEPT ![t] = @ + 1]
    /\ loc' = [loc EXCEPT ![t] = [NoLocals EXCEPT !.op = "clear_screen"]]
    /\ Goto(t, "get_frame_buffer")
    /\ UNCHANGED <<hwVars, lock, opLog, idleVars, ghostVars>>

CallSetPixel(t) ==
    /\ pc[t] = "idle" /\ calls[t] < MaxCalls
    /\ calls' = [calls EXCEPT ![t] = @ + 1]
    /\ \E p \in ConcPixels, color \in ConcColors :
          loc' = [loc EXCEPT ![t] = [NoLocals EXCEPT !.op = "set_pixel",
                                        !.x = p[1], !.y = p[2], !.color = color]]
    /\ Goto(t, "get_frame_buffer")
    /\ UNCHANGED <<hwVars, lock, opLog, idleVars, ghostVars>>

CallSetMode(t) ==
    /\ pc[t] = "idle" /\ calls[t] < MaxCalls
    /\ calls' = [calls EXCEPT ![t] = @ + 1]
    /\ loc' = [loc EXCEPT ![t] = [NoLocals EXCEPT !.op = "set_mode"]]
    /\ Goto(t, "sm_lock")
    /\ UNCHANGED <<hwVars, lock, opLog, idleVars, ghostVars>>

\* the call `call` run alone on s
RunCall(s, call) ==
    IF call.op = "clear_screen" THEN clear_screen(s)
    ELSE IF call.op = "set_pixel"
         THEN set_pixel(s, call.x, call.y, call.color)
         ELSE set_mode(s, FALSE)

\* get_frame_buffer: let mut vga = VGA.lock();
\* let frame_buffer = vga.get_frame_buffer(); (vga, frame_buffer as *mut u8)
get_frame_buffer(t) ==
    /\ pc[t] = "get_frame_buffer"
    /\ CanLock(lock)
    /\ lock' = t
    /\ opLog' = <<>>
    /\ loc' = [loc EXCEPT ![t].frame_buffer = FrameBufferPointer(vga)]
    /\ serial' = RunCall(serial, loc[t])
    /\ Goto(t, IF loc[t].op = "clear_screen" THEN "cs_set_plane_mask"
               ELSE "sp_offset")
    /\ UNCHANGED <<hwVars, calls, idleVars>>

\* clear_screen: set_plane_mask(PlaneMask::ALL_PLANES)
CsSetPlaneMask(t) ==
    /\ pc[t] = "cs_set_plane_mask"
    /\ vga' = set_plane_mask(vga, ALL_PLANES)
    /\ Logged(t, "set_plane_mask", ALL_PLANES)
    /\ Goto(t, "cs_write_enable_set_reset")
    /\ UNCHANGED <<mem, lock, loc, calls, idleVars, ghostVars>>

\* clear_screen: write_enable_set_reset(PlaneMask::NONE)
CsWriteEnableSetReset(t) ==
    /\ pc[t] = "cs_write_enable_set_reset"
    /\ vga' = write_enable_set_reset(vga, NONE)
    /\ Logged(t, "write_enable_set_reset", NONE)
    /\ loc' = [loc EXCEPT ![t].offset = 0]
    /\ Goto(t, "cs_write")
    /\ UNCHANGED <<mem, lock, calls, idleVars, ghostVars>>

\* clear_screen: one iteration of the loop (up to the next tracked offset)
CsWrite(t) ==
    /\ pc[t] = "cs_write"
    /\ mem' = write_volatile(vga, mem, loc[t].offset, Black)
    /\ Logged(t, "write", loc[t].offset)
    /\ loc' = [loc EXCEPT ![t].offset = NextOffset(loc[t].offset)]
    /\ Goto(t, IF NextOffset(loc[t].offset) >= ALL_PLANES_SCREEN_SIZE
               THEN "return" ELSE "cs_write")
    /\ UNCHANGED <<vga, lock, calls, idleVars, ghostVars>>

\* set_pixel: offset, mask, plane_mask = 0x01, plane = 0
SpOffset(t) ==
    /\ pc[t] = "sp_offset"
    /\ loc' = [loc EXCEPT ![t].offset = Offset(loc[t].x, loc[t].y),
                          ![t].mask = PixelMask(loc[t].x),
                          ![t].plane_mask = 1,
                          ![t].plane = 0]
    /\ Goto(t, "sp_write_read_plane")
    /\ UNCHANGED <<hwVars, lock, calls, opLog, idleVars, ghostVars>>

\* set_pixel with the plane-mask call left out
SpWriteReadPlaneSkipsMaskMutant(t) ==
    /\ pc[t] = "sp_write_read_plane"
    /\ vga' = write_read_plane(vga, ReadPlaneFromU8(loc[t].plane))
    /\ Logged(t, "write_read_plane", loc[t].plane)
    /\ Goto(t, "sp_read")
    /\ UNCHANGED <<mem, lock, loc, calls, idleVars, ghostVars>>

\* set_pixel: write_read_plane(plane)
SpWriteReadPlane(t) ==
    /\ pc[t] = "sp_write_read_plane"
    /\ vga' = write_read_plane(vga, ReadPlaneFromU8(loc[t].plane))
    /\ Logged(t, "write_read_plane", loc[t].plane)
    /\ Goto(t, "sp_set_plane_mask")
    /\ UNCHANGED <<mem, lock, loc, calls, idleVars, ghostVars>>

\* set_pixel: set_plane_mask(plane)
SpSetPlaneMask(t) ==
    /\ pc[t] = "sp_set_plane_mask"
    /\ vga' = set_plane_mask(vga, PlaneMaskFromU8(loc[t].plane))
    /\ Logged(t, "set_plane_mask", PlaneMaskFromU8(loc[t].plane))
    /\ Goto(t, "sp_read")
    /\ UNCHANGED <<mem, lock, loc, calls, idleVars, ghostVars>>

\* set_pixel: current_value = read_volatile()
SpRead(t) ==
    /\ pc[t] = "sp_read"
    /\ loc' = [loc EXCEPT ![t].current_value =
                              read_volatile(vga, mem, loc[t].offset)]
    /\ Logged(t, "read", loc[t].offset)
    /\ Goto(t, "sp_write")
    /\ UNCHANGED <<hwVars, lock, calls, idleVars, ghostVars>>

\* set_pixel with the guard dropped before the last plane
SpWriteDropsGuardMutant(t) ==
    /\ pc[t] = "sp_write"
    /\ mem' = write_volatile(vga, mem, loc[t].offset,
                             NewValue(loc[t].current_value, loc[t].mask,
                                      loc[t].plane_mask, loc[t].color))
    /\ Logged(t, "write", loc[t].offset)
    /\ loc' = [loc EXCEPT ![t].plane_mask = Shl(loc[t].plane_mask, 1),
                          ![t].plane = loc[t].plane + 1]
    /\ Goto(t, IF loc[t].plane + 1 >= 4 THEN "return"
               ELSE "sp_write_read_plane")
    /\ lock' = IF loc[t].plane = 2 THEN "unlocked" ELSE lock
    /\ UNCHANGED <<vga, calls, idleVars, ghostVars>>

\* set_pixel: write_volatile(new_value); plane_mask <<= 1; next plane
SpWrite(t) ==
    /\ pc[t] = "sp_write"
    /\ mem' = write_volatile(vga, mem, loc[t].offset,
                             NewValue(loc[t].current_value, loc[t].mask,
                                      loc[t].plane_mask, loc[t].color))
    /\ Logged(t, "write", loc[t].offset)
    /\ loc' = [loc EXCEPT ![t].plane_mask = Shl(loc[t].plane_mask, 1),
                          ![t].plane = loc[t].plane + 1]
    /\ Goto(t, IF loc[t].plane + 1 >= 4 THEN "return"
               ELSE "sp_write_read_plane")
    /\ UNCHANGED <<vga, lock, calls, idleVars, ghostVars>>

\* set_mode: let mut vga = VGA.lock()
SmLock(t) ==
    /\ pc[t] = "sm_lock"
    /\ CanLock(lock)
    /\ lock' = t
    /\ opLog' = <<>>
    /\ serial' = RunCall(serial, loc[t])
    /\ Goto(t, "sm_set_video_mode")
    /\ UNCHANGED <<hwVars, loc, calls, idleVars>>

\* set_mode: vga.set_video_mode(VideoMode::Mode640x480x16)
SmSetVideoMode(t) ==
    /\ pc[t] = "sm_set_video_mode"
    /\ \E messUp \in BOOLEAN : vga' = set_video_mode(vga, messUp)
    /\ Logged(t, "set_video_mode", 0)
    /\ Goto(t, "sm_load_palette")
    /\ UNCHANGED <<mem, lock, loc, calls, idleVars, ghostVars>>

\* set_mode: load_palette(&DEFAULT_PALETTE)
SmLoadPalette(t) ==
    /\ pc[t] = "sm_load_palette"
    /\ vga' = SetModePalette(vga)
    /\ Logged(t, "load_palette", 0)
    /\ Goto(t, "return")
    /\ UNCHANGED <<mem, lock, loc, calls, idleVars, ghostVars>>

\* the end of the operation with the guard leaked instead of dropped
ReturnLeaksGuardMutant(t) ==
    /\ pc[t] = "return"
    /\ lock' = lock
    /\ loc' = [loc EXCEPT ![t] = NoLocals]
    /\ Goto(t, "idle")
    /\ UNCHANGED <<hwVars, calls, opLog, idleVars, ghostVars>>

\* the end of the operation: the guard `vga` is dropped
Return(t) ==
    /\ pc[t] = "return"
    /\ lock' = "unlocked"
    /\ loc' = [loc EXCEPT ![t] = NoLocals]
    /\ Goto(t, "idle")
    /\ UNCHANGED <<hwVars, calls, opLog, idleVars, ghostVars>>

InitConc ==
    /\ vga \in InitVga
    /\ mem = MemOf(255)
    /\ ConcIdle /\ SeqIdle /\ ColorIdle /\ AddrIdle /\ PureIdle

NextConc ==
    \E t \in Threads :
        \/ CallClearScreen(t) \/ CallSetPixel(t) \/ CallSetMode(t)
        \/ get_frame_buffer(t)
        \/ CsSetPlaneMask(t) \/ CsWriteEnableSetReset(t) \/ CsWrite(t)
        \/ SpOffset(t) \/ SpWriteReadPlane(t) \/ SpSetPlaneMask(t)
        \/ SpRead(t) \/ SpWrite(t)
        \/ SmLock(t) \/ SmSetVideoMode(t) \/ SmLoadPalette(t)
        \/ Return(t)

SpecConc == InitConc /\ [][NextConc]_vars

\* the caller is between its lock() and the drop of its guard
Holding(t) == pc[t] \notin {"idle", "get_frame_buffer", "sm_lock"}

\* C7: a caller is between its first register write and its last frame-buffer
\* access only while it holds the device lock, so no two callers are there
\* together, and every access logged since the last lock() is the holder's.
C7_MutualExclusion ==
    /\ \A t \in Threads : Holding(t) => lock = t
    /\ \A t, u \in Threads : (Holding(t) /\ Holding(u)) => t = u
    /\ \A i \in DOMAIN opLog : \A t \in Threads :
          (Holding(t) \/ lock = t) => opLog[i][1] = t
    /\ \A i, j \in DOMAIN opLog : opLog[i][1] = opLog[j][1]

\* one caller is in the middle of set_pixel while the other waits for the lock
C7_Witness ==
    /\ pc["t1"] = "sp_read" /\ loc["t1"].plane = 2 /\ lock = "t1"
    /\ pc["t2"] = "get_frame_buffer" /\ loc["t2"].op = "clear_screen"
    /\ Len(opLog) = 10

\* C8: set_mode holds the lock from its mode switch to its return, the mode
\* switch comes first and the palette load second, and at its return the
\* adapter is in Mode640x480x16 with DEFAULT_PALETTE loaded.
C8_SetModeOrder ==
    \A t \in Threads :
        /\ pc[t] \in {"sm_set_video_mode", "sm_load_palette"} => lock = t
        /\ pc[t] = "sm_set_video_mode" => opLog = <<>>
        /\ pc[t] = "sm_load_palette" =>
              /\ opLog = << <<t, "set_video_mode", 0>> >>
              /\ InGraphicsMode
        /\ (pc[t] = "return" /\ loc[t].op = "set_mode") =>
              /\ lock = t
              /\ opLog = << <<t, "set_video_mode", 0>>, <<t, "load_palette", 0>> >>
              /\ InGraphicsMode
              /\ vga.palette = "DEFAULT_PALETTE"

\* set_mode returns on an adapter whose BIOS corrupted the palette while
\* switching modes
C8_Witness ==
    \E t \in Threads :
        /\ pc[t] = "return" /\ loc[t].op = "set_mode"
        /\ vga.palette = "DEFAULT_PALETTE"
        /\ calls[t] = 2

\* C13: whenever no caller is inside an operation, the registers and the
\* frame buffer are what the calls made so far leave when run one after the
\* other in the order of their lock(); and a set_pixel that has done its last
\* write in the 640x480x16 mode leaves its pixel reading exactly its own
\* colour, whatever the other caller is doing.
C13_Serializable ==
    /\ (\A t \in Threads : ~Holding(t)) =>
          /\ vga = serial.vga
          /\ mem = serial.mem
    /\ \A t \in Threads :
          (pc[t] = "return" /\ loc[t].op = "set_pixel" /\ InGraphicsMode) =>
              ReadPixel(mem, loc[t].x, loc[t].y) = loc[t].color

\* both callers are in set_pixel on pixel (0, 0), one with colour 5 at its
\* return, the other with colour 10 waiting for the lock
C13_Witness ==
    /\ pc["t1"] = "return" /\ loc["t1"].op = "set_pixel"
    /\ loc["t1"].x = 0 /\ loc["t1"].y = 0 /\ loc["t1"].color = 5
    /\ pc["t2"] = "get_frame_buffer" /\ loc["t2"].op = "set_pixel"
    /\ loc["t2"].x = 0 /\ loc["t2"].y = 0 /\ loc["t2"].color = 10
    /\ InGraphicsMode
    /\ ReadPixel(mem, 0, 0) = 5

\* a fair spinlock: a caller that keeps finding the lock free now and then
\* gets it; a caller inside an operation keeps running
\* (Acquire(t) changing lock is the step get_frame_buffer(t) or SmLock(t))
Acquire(t) ==
    /\ pc[t] \in {"get_frame_buffer", "sm_lock"}
    /\ CanLock(lock)
    /\ lock' = t

SpecConcFair ==
    /\ SpecConc
    /\ \A t \in Threads :
          /\ SF_lock(Acquire(t))
          /\ WF_vars(CsSetPlaneMask(t) \/ CsWriteEnableSetReset(t) \/ CsWrite(t)
                     \/ SpOffset(t) \/ SpWriteReadPlane(t) \/ SpSetPlaneMask(t)
                     \/ SpRead(t) \/ SpWrite(t)
                     \/ SmSetVideoMode(t) \/ SmLoadPalette(t) \/ Return(t))

\* the most register and memory accesses one operation makes on the tracked
\* part of the frame buffer: set_pixel's 4 * 4
MaxAccesses == 16

\* the lock is taken by t only at its lock() and given up only at its return
LockSteps ==
    \A t \in Threads :
        /\ (lock # t /\ lock' = t) =>
              /\ lock = "unlocked"
              /\ pc[t] \in {"get_frame_buffer", "sm_lock"}
              /\ Holding(t)'
        /\ (lock = t /\ lock' # t) =>
              /\ pc[t] = "return" /\ pc'[t] = "idle"
              /\ lock' = "unlocked"

\* C14: a caller holds the lock from its lock() to its return and at no other
\* time, the lock is taken only when free and only by a caller at its lock(),
\* it is released only at a return, an operation makes at most MaxAccesses
\* accesses under one hold, the lock is free when no operation is in progress,
\* and with a fair lock every started operation returns.
C14_LockDiscipline ==
    /\ [](\A t \in Threads : Holding(t) <=> lock = t)
    /\ []((\A t \in Threads : pc[t] = "idle") => lock = "unlocked")
    /\ [](Len(opLog) <= MaxAccesses)
    /\ [][LockSteps]_vars
    /\ \A t \in Threads : (pc[t] # "idle") ~> (pc[t] = "idle")

\* both callers have run two operations each to their return and the lock is
\* free again
C14_Witness ==
    /\ \A t \in Threads : pc[t] = "idle" /\ calls[t] = 2
    /\ lock = "unlocked"
    /\ Len(opLog) = MaxAccesses

\* the accesses set_pixel makes to plane p at `offset`
PlaneProtocol(t, p, offset) ==
    << <<t, "write_read_plane", p>>, <<t, "set_plane_mask", Pow2(p)>>,
       <<t, "read", offset>>, <<t, "write", offset>> >>

\* the accesses of a whole set_pixel at `offset`
PixelProtocol(t, offset) ==
    PlaneProtocol(t, 0, offset) \o PlaneProtocol(t, 1, offset)
        \o PlaneProtocol(t, 2, offset) \o PlaneProtocol(t, 3, offset)

\* how many accesses set_pixel has made when it is at `label` for plane p
ProtocolStep(label, p) ==
    CASE label = "sp_offset"           -> 0
      [] label = "sp_write_read_plane" -> 4 * p
      [] label = "sp_set_plane_mask"   -> 4 * p + 1
      [] label = "sp_read"             -> 4 * p + 2
      [] label = "sp_write"            -> 4 * p + 3
      [] label = "return"              -> 16

\* C15: at every point of set_pixel(x, y, _) the accesses made since lock()
\* are the first ones of: for p = 0, 1, 2, 3 in this order, read-plane select
\* p, plane mask 1 << p, read at x/8 + 80*y, write at x/8 + 80*y; at a read or
\* write for plane p both selects are p; at the return the 16 accesses are
\* complete.
C15_PlaneProtocol ==
    \A t \in Threads :
        (loc[t].op = "set_pixel" /\ Holding(t)) =>
            LET offset == (loc[t].x \div 8) + 80 * loc[t].y
                n == ProtocolStep(pc[t], loc[t].plane)
            IN  /\ n <= 16
                /\ opLog = SubSeq(PixelProtocol(t, offset), 1, n)
                /\ pc[t] \in {"sp_read", "sp_write"} =>
                      /\ loc[t].plane \in Planes
                      /\ vga.read_plane = loc[t].plane
                      /\ vga.plane_mask = Pow2(loc[t].plane)

\* set_pixel(7, 0, _) is about to write plane 3 after the other caller ran
C15_Witness ==
    \E t, u \in Threads :
        /\ t # u /\ calls[u] > 0
        /\ pc[t] = "sp_write" /\ loc[t].plane = 3 /\ loc[t].x = 7
        /\ Len(opLog) = 15

\* C17: a caller inside clear_screen or set_pixel holds the lock and its
\* frame_buffer pointer is the base the adapter maps now, read under this
\* hold; outside these operations, and in set_mode, a caller has no pointer.
C17_FrameBufferCurrent ==
    \A t \in Threads :
        /\ (Holding(t) /\ loc[t].op \in {"clear_screen", "set_pixel"}) =>
              /\ lock = t
              /\ loc[t].frame_buffer = GetFrameBuffer(vga)
        /\ (~Holding(t) \/ loc[t].op = "set_mode") => loc[t].frame_buffer = 0

\* a set_pixel writes through the graphics-mode base after the other caller
\* switched the adapter out of another mode
C17_Witness ==
    /\ pc["t1"] = "sp_write"
    /\ loc["t1"].frame_buffer = FrameBuffer_GraphicsMode
    /\ calls["t2"] > 0 /\ pc["t2"] = "idle"
    /\ serial.vga.palette = "DEFAULT_PALETTE" /\ calls["t1"] = 1
    /\ lock = "t1"

(***************************************************************************)
(* SpecPalette: DEFAULT_PALETTE and its load into the DAC                  *)
(***************************************************************************)
PALETTE_SIZE == 768

\* a table of 8-bit channels
DefaultPalette8BitMutant == [i \in 1..768 |-> (i * 85) % 256]
\* pub const DEFAULT_PALETTE: [u8; PALETTE_SIZE]
DEFAULT_PALETTE == <<
    0, 0, 0, 0, 0, 42, 0, 42, 0, 0, 42, 42, 42, 0, 0, 42, 0, 42, 42, 42, 0, 42, 42, 42,
    0, 0, 21, 0, 0, 63, 0, 42, 21, 0, 42, 63, 42, 0, 21, 42, 0, 63, 42, 42, 21, 42, 42, 63,
    0, 21, 0, 0, 21, 42, 0, 63, 0, 0, 63, 42, 42, 21, 0, 42, 21, 42, 42, 63, 0, 42, 63, 42,
    0, 21, 21, 0, 21, 63, 0, 63, 21, 0, 63, 63, 42, 21, 21, 42, 21, 63, 42, 63, 21, 42, 63, 63,
    21, 0, 0, 21, 0, 42, 21, 42, 0, 21, 42, 42, 63, 0, 0, 63, 0, 42, 63, 42, 0, 63, 42, 42,
    21, 0, 21, 21, 0, 63, 21, 42, 21, 21, 42, 63, 63, 0, 21, 63, 0, 63, 63, 42, 21, 63, 42, 63,
    21, 21, 0, 21, 21, 42, 21, 63, 0, 21, 63, 42, 63, 21, 0, 63, 21, 42, 63, 63, 0, 63, 63, 42,
    21, 21, 21, 21, 21, 63, 21, 63, 21, 21, 63, 63, 63, 21, 21, 63, 21, 63, 63, 63, 21, 63, 63, 63,
    63, 63, 63, 63, 63, 63, 63, 63, 63, 63, 63, 63, 63, 63, 63, 63, 63, 63, 63, 63, 63, 63, 63, 63,
    63, 63, 63, 63, 63, 63, 63, 63, 63, 63, 63, 63, 63, 63, 63, 63, 63, 63, 63, 63, 63, 63, 63, 63,
    63, 63, 63, 63, 63, 63, 63, 63, 63, 63, 63, 63, 63, 63, 63, 63, 63, 63, 63, 63, 63, 63, 63, 63,
    63, 63, 63, 63, 63, 63, 63, 63, 63, 63, 63, 63, 63, 63, 63, 63, 63, 63, 63, 63, 63, 63, 63, 63,
    63, 63, 63, 63, 63, 63, 63, 63, 63, 63, 63, 63, 63, 63, 63, 63, 63, 63, 63, 63, 63, 63, 63, 63,
    63, 63, 63, 63, 63, 63, 63, 63, 63, 63, 63, 63, 63, 63, 63, 63, 63, 63, 63, 63, 63, 63, 63, 63,
    63, 63, 63, 63, 63, 63, 63, 63, 63, 63, 63, 63, 63, 63, 63, 63, 63, 63, 63, 63, 63, 63, 63, 63,
    63, 63, 63, 63, 63, 63, 63, 63, 63, 63, 63, 63, 63, 63, 63, 63, 63, 63, 63, 63, 63, 63, 63, 63,
    63, 63, 63, 63, 63, 63, 63, 63, 63, 63, 63, 63, 63, 63, 63, 63, 63, 63, 63, 63, 63, 63, 63, 63,
    63, 63, 63, 63, 63, 63, 63, 63, 63, 63, 63, 63, 63, 63, 63, 63, 63, 63, 63, 63, 63, 63, 63, 63,
    63, 63, 63, 63, 63, 63, 63, 63, 63, 63, 63, 63, 63, 63, 63, 63, 63, 63, 63, 63, 63, 63, 63, 63,
    63, 63, 63, 63, 63, 63, 63, 63, 63, 63, 63, 63, 63, 63, 63, 63, 63, 63, 63, 63, 63, 63, 63, 63,
    63, 63, 63, 63, 63, 63, 63, 63, 63, 63, 63, 63, 63, 63, 63, 63, 63, 63, 63, 63, 63, 63, 63, 63,
    63, 63, 63, 63, 63, 63, 63, 63, 63, 63, 63, 63, 63, 63, 63, 63, 63, 63, 63, 63, 63, 63, 63, 63,
    63, 63, 63, 63, 63, 63, 63, 63, 63, 63, 63, 63, 63, 63, 63, 63, 63, 63, 63, 63, 63, 63, 63, 63,
    63, 63, 63, 63, 63, 63, 63, 63, 63, 63, 63, 63, 63, 63, 63, 63, 63, 63, 63, 63, 63, 63, 63, 63,
    63, 63, 63, 63, 63, 63, 63, 63, 63, 63, 63, 63, 63, 63, 63, 63, 63, 63, 63, 63, 63, 63, 63, 63,
    63, 63, 63, 63, 63, 63, 63, 63, 63, 63, 63, 63, 63, 63, 63, 63, 63, 63, 63, 63, 63, 63, 63, 63,
    63, 63, 63, 63, 63, 63, 63, 63, 63, 63, 63, 63, 63, 63, 63, 63, 63, 63, 63, 63, 63, 63, 63, 63,
    63, 63, 63, 63, 63, 63, 63, 63, 63, 63, 63, 63, 63, 63, 63, 63, 63, 63, 63, 63, 63, 63, 63, 63,
    63, 63, 63, 63, 63, 63, 63, 63, 63, 63, 63, 63, 63, 63, 63, 63, 63, 63, 63, 63, 63, 63, 63, 63,
    63, 63, 63, 63, 63, 63, 63, 63, 63, 63, 63, 63, 63, 63, 63, 63, 63, 63, 63, 63, 63, 63, 63, 63,
    63, 63, 63, 63, 63, 63, 63, 63, 63, 63, 63, 63, 63, 63, 63, 63, 63, 63, 63, 63, 63, 63, 63, 63,
    63, 63, 63, 63, 63, 63, 63, 63, 63, 63, 63, 63, 63, 63, 63, 63, 63, 63, 63, 63, 63, 63, 63, 63
>>

InitPalette ==
    /\ dac = <<>> /\ cm = NoCommute
    /\ HwIdle /\ SeqIdle /\ ColorIdle /\ AddrIdle /\ ConcIdle

\* load_palette(&DEFAULT_PALETTE): the next byte of the table goes to the DAC
LoadPaletteByte ==
    /\ Len(dac) < Len(DEFAULT_PALETTE)
    /\ dac' = Append(dac, DEFAULT_PALETTE[Len(dac) + 1])
    /\ UNCHANGED <<cm, colorVars, hwVars, seqVars, addrVars, concVars>>

NextPalette == LoadPaletteByte

SpecPalette == InitPalette /\ [][NextPalette]_vars

\* C11: DEFAULT_PALETTE has exactly 768 = PALETTE_SIZE bytes, 256 entries of 3
\* channels, and every byte of it (so every byte loaded into the DAC) is at
\* most 63.
C11_PaletteShape ==
    /\ Len(DEFAULT_PALETTE) = 768
    /\ PALETTE_SIZE = 768
    /\ Len(DEFAULT_PALETTE) = 256 * 3
    /\ Len(DEFAULT_PALETTE) % 3 = 0
    /\ \A i \in 1..Len(DEFAULT_PALETTE) :
          DEFAULT_PALETTE[i] >= 0 /\ DEFAULT_PALETTE[i] <= 63
    /\ Len(dac) <= 768
    /\ \A i \in 1..Len(dac) : dac[i] <= 63

\* the whole table has been loaded; its last channel is 0x3F
C11_Witness == Len(dac) = 768 /\ dac[768] = 63 /\ dac[6] = 42

(***************************************************************************)
(* SpecOob: set_pixel outside 0..640 x 0..480                              *)
(***************************************************************************)
\* pixels outside the screen whose byte is one of TrackedOffsets
OobPixels ==
    {<<1279, 478>>, <<1272, 478>>, <<639, 959>>, <<640, 959>>, <<0, 960>>}

\* the pixel one row down that x >= WIDTH aliases
Twin(p) == IF p[1] >= WIDTH THEN <<p[1] - WIDTH, p[2] + 1>> ELSE p

InitOob ==
    /\ vga \in InitVga
    /\ mem \in InitMem
    /\ SeqIdle /\ ColorIdle /\ AddrIdle /\ ConcIdle /\ PureIdle

\* set_pixel(x, y, color) outside the screen; `serial` gets what
\* set_pixel on Twin(<<x, y>>) does to the same state
OobSetPixel ==
    /\ nOps < MaxOps
    /\ \E p \in OobPixels, color \in Color16Bit :
          LET s == [vga |-> vga, mem |-> mem]
              r == set_pixel(s, p[1], p[2], color)
          IN  /\ vga' = r.vga
              /\ mem' = r.mem
              /\ serial' = set_pixel(s, Twin(p)[1], Twin(p)[2], color)
              /\ lastOp' = "set_pixel" /\ prevOp' = lastOp
              /\ lastX' = p[1] /\ lastY' = p[2] /\ lastColor' = color
              /\ memBefore' = mem
              /\ nOps' = nOps + 1
    /\ UNCHANGED <<colorVars, addrVars, lock, pc, loc, calls, opLog, pureVars>>

NextOob == OobSetPixel

SpecOob == InitOob /\ [][NextOob]_vars

\* C16: set_pixel(x, y, C) with x >= 640 or y >= 480 changes the frame buffer
\* only in the byte at x/8 + 80*y, where in the 640x480x16 mode it sets bit
\* 7 - (x mod 8) of plane p to bit p of C and keeps the other bits; for
\* x >= 640 it leaves the registers and the frame buffer exactly as
\* set_pixel(x - 640, y + 1, C) does.
C16_NoBoundsCheck ==
    (lastOp = "set_pixel" /\ ~InRange(lastX, lastY)) =>
        LET o == (lastX \div 8) + 80 * lastY
            b == 7 - (lastX % 8)
        IN  /\ o \in TrackedOffsets
            /\ \A p \in Planes, o2 \in TrackedOffsets \ {o} :
                  mem[p][o2] = memBefore[p][o2]
            /\ InGraphicsMode =>
                  \A p \in Planes :
                      /\ Bit(mem[p][o], b) = Bit(lastColor, p)
                      /\ \A i \in (0..7) \ {b} :
                            Bit(mem[p][o], i) = Bit(memBefore[p][o], i)
            /\ lastX >= WIDTH =>
                  /\ mem = serial.mem
                  /\ vga = serial.vga

\* set_pixel(1279, 478, Black) has cleared the White pixel (639, 479)
C16_Witness ==
    /\ lastOp = "set_pixel" /\ lastX = 1279 /\ lastY = 478 /\ lastColor = Black
    /\ InGraphicsMode
    /\ \E p \in Planes : Bit(memBefore[p][38399], 0) = 1
    /\ ReadPixel(mem, 639, 479) = Black
    /\ mem # memBefore

(***************************************************************************)
(* SpecCommute: two set_pixel calls on distinct pixels, in both orders     *)
(***************************************************************************)
InitCommute ==
    /\ vga \in InitVga
    /\ mem \in InitMem
    /\ \E p1 \in Pixels, p2 \in Pixels, a \in Color16Bit, b \in Color16Bit :
          /\ p1 # p2
          /\ cm = [p1 |-> p1, p2 |-> p2, a |-> a, b |-> b, step |-> 0,
                   ab |-> [vga |-> vga, mem |-> mem],
                   ba |-> [vga |-> vga, mem |-> mem]]
    /\ dac = <<>>
    /\ SeqIdle /\ ColorIdle /\ AddrIdle /\ ConcIdle

\* the first call of each order
CommuteFirst ==
    /\ cm.step = 0
    /\ cm' = [cm EXCEPT !.step = 1,
                        !.ab = set_pixel(cm.ab, cm.p1[1], cm.p1[2], cm.a),
                        !.ba = set_pixel(cm.ba, cm.p2[1], cm.p2[2], cm.b)]
    /\ UNCHANGED <<dac, colorVars, hwVars, seqVars, addrVars, concVars>>

\* the second call of each order
CommuteSecond ==
    /\ cm.step = 1
    /\ cm' = [cm EXCEPT !.step = 2,
                        !.ab = set_pixel(cm.ab, cm.p2[1], cm.p2[2], cm.b),
                        !.ba = set_pixel(cm.ba, cm.p1[1], cm.p1[2], cm.a)]
    /\ UNCHANGED <<dac, colorVars, hwVars, seqVars, addrVars, concVars>>

NextCommute == CommuteFirst \/ CommuteSecond

SpecCommute == InitCommute /\ [][NextCommute]_vars

\* C19: for distinct pixels p1 and p2 of the screen, set_pixel(p1, A) then
\* set_pixel(p2, B) and set_pixel(p2, B) then set_pixel(p1, A) leave the same
\* bytes in all planes and the same registers, from any registers; started in
\* the 640x480x16 mode, p1 then reads A and p2 reads B.
C19_SetPixelCommutes ==
    cm.step = 2 =>
        /\ cm.ab.mem = cm.ba.mem
        /\ cm.ab.vga = cm.ba.vga
        /\ InGraphicsMode =>
              /\ ReadPixel(cm.ab.mem, cm.p1[1], cm.p1[2]) = cm.a
              /\ ReadPixel(cm.ab.mem, cm.p2[1], cm.p2[2]) = cm.b

\* pixels (0, 0) and (7, 0) share byte 0; both orders have run
C19_Witness ==
    /\ cm.step = 2
    /\ cm.p1 = <<0, 0>> /\ cm.p2 = <<7, 0>>
    /\ cm.a = 5 /\ cm.b = 10
    /\ InGraphicsMode
    /\ ReadPixel(cm.ab.mem, 0, 0) = 5 /\ ReadPixel(cm.ba.mem, 7, 0) = 10
    /\ cm.ab.mem # mem

====
